---- MODULE Spec2Model ----
(***************************************************************************)
(* Job orchestration of genealpha-backend-training: the in-memory          *)
(* JobStore, the two admission paths (TrainingService.start_job and the    *)
(* POST /training/start route), the worker body TrainingService._run_job   *)
(* running on EXECUTOR, and the DELETE /jobs/{job_id} route.               *)
(*                                                                         *)
(* Threads: route handlers are `async def` without an await, so they run   *)
(* one at a time on the event loop; _run_job runs on EXECUTOR's threads    *)
(* and interleaves with a handler between any two statements.  A worker    *)
(* action groups the statements between two store-visible points.          *)
(***************************************************************************)
EXTENDS Integers, Sequences, FiniteSets, TLC

\* ------------------------------------------------------------------ bounds
MaxJobs == 1          \* records created in Spec
PoolJobs == 5         \* records created in PoolSpec
StoreJobs == 2        \* records held at once in StoreSpec and ReadSpec
MaxThreads == 3       \* threads calling JobStore.instance() in SingletonSpec
PairJobs == 2         \* records created in PairSpec

\* ------------------------------------------------------- program constants
MaxWorkers == 4       \* ThreadPoolExecutor(max_workers=4)
PushAttempts == 3     \* push_model: for attempt in range(1, 4)

None == "None"

PENDING == "pending"
RUNNING == "running"
COMPLETED == "completed"
FAILED == "failed"
CANCELLED == "cancelled"

JobStatus == {PENDING, RUNNING, COMPLETED, FAILED, CANCELLED}

Terminal == {COMPLETED, FAILED, CANCELLED}

\* ModelRegistry._models: type -> call shape of the registered class.
\* linear_regression is the repository's BaseModel subclass (train with
\* four arrays, no progress_cb parameter); custom_fit stands for a
\* registered strategy of the path-based shape _run_job prefers, which
\* receives progress_cb.
_models == [linear_regression |-> "train4", custom_fit |-> "fit"]

ModelTypes == {"linear_regression", "custom_fit", "does_not_exist"}

\* datasets for which hf_hub_download(README.md) succeeds
HubDatasets == {"GeneAlpha/sample"}

Datasets == {"GeneAlpha/sample", "GeneAlpha/this_dataset_is_fake"}

RequestConfig == {<<"target_column", "target">>}

\* ModelRegistry.is_registered
is_registered(model_type) == model_type \in DOMAIN _models

\* ensure_dataset_exists: TRUE when it returns, FALSE when it raises ValueError
ensure_dataset_exists(dataset) == dataset \in HubDatasets

\* TrainingRequest as the handlers read it (user_id, model_type, dataset,
\* config, upload_to_hub); publication is requested only with a registered
\* model type and a dataset that exists
Requests ==
  {req \in [user_id : {"alice42"}, model_type : ModelTypes, dataset : Datasets,
            config : {RequestConfig}, upload_to_hub : BOOLEAN] :
     req.upload_to_hub
       => (is_registered(req.model_type) /\ ensure_dataset_exists(req.dataset))}

NoMetrics == {}

SomeMetrics == {<<"train_mse", 1>>}

\* what the world outside the process may do to one execution of _run_job:
\* the calls that may raise, the values a strategy passes to progress_cb,
\* the metrics mappings a strategy returns
FaultSites == {"mkdir", "prepare", "wandb_init", "train", "save", "upload"}

AnyEnv == [faults |-> FaultSites, progress |-> {50, 100}, metrics |-> {NoMetrics, SomeMetrics}]

\* the pool runs: directory creation may fail, nothing else varies
PoolEnv == [faults |-> {"mkdir"}, progress |-> {}, metrics |-> {SomeMetrics}]

\* ----------------------------------------------------------------- hf_utils
HF_ORG == "GeneAlpha"

\* s.replace(old, new) for a one-character old
RECURSIVE replace(_, _, _)
replace(s, old, new) ==
  IF s = "" THEN ""
  ELSE (IF SubSeq(s, 1, 1) = old THEN new ELSE SubSeq(s, 1, 1))
         \o replace(SubSeq(s, 2, Len(s)), old, new)

\* s.split("/")[-1], scanning from position k down to the last "/"
RECURSIVE LastSegmentFrom(_, _)
LastSegmentFrom(s, k) ==
  IF k = 0 THEN s
  ELSE IF SubSeq(s, k, k) = "/" THEN SubSeq(s, k + 1, Len(s))
  ELSE LastSegmentFrom(s, k - 1)

LastSegment(s) == LastSegmentFrom(s, Len(s))

\* the utcnow() stamp and the uuid4 prefix build_repo_id draws
Stamp == "YYYYMMDD-HHMMSS-xxxxxx"

\* build_repo_id with the model key left out of the name
build_repo_id_NoModelKey(user_id, model_key, dataset_key) ==
  HF_ORG \o "/" \o user_id \o "_" \o replace(dataset_key, "/", "-")
         \o "__" \o Stamp

build_repo_id(user_id, model_key, dataset_key) ==
  HF_ORG \o "/" \o user_id \o "_" \o model_key \o "_"
         \o replace(dataset_key, "/", "-") \o "__" \o Stamp

PushError == "Failed to push model to Hugging Face after 3 retries."

\* push_model from attempt number `attempt` on; outcomes[i] tells whether
\* create_repo and upload_folder of attempt i go through
RECURSIVE push_model_from(_, _, _)
push_model_from(outcomes, repo_id, attempt) ==
  IF attempt > PushAttempts THEN [raised |-> TRUE, value |-> PushError]
  ELSE IF outcomes[attempt]
         THEN [raised |-> FALSE, value |-> "https://huggingface.co/" \o repo_id]
  ELSE push_model_from(outcomes, repo_id, attempt + 1)

push_model(outcomes, repo_id) == push_model_from(outcomes, repo_id, 1)

\* what the hub may do to the attempts of one push_model call
UploadOutcomes(E) ==
  IF "upload" \in E.faults THEN [1 .. PushAttempts -> BOOLEAN]
  ELSE {[i \in 1 .. PushAttempts |-> TRUE]}

VARIABLES
  jobs,      \* JobStore._jobs : job_id -> Job
  queue,     \* EXECUTOR's work queue (FIFO) of job ids
  tasks,     \* job_id -> locals of its _run_job call (pc, req, model, logs, ...)
  scratch,   \* job ids whose storage/artifacts/<job_id> directory exists
  tracker,   \* job_id -> state of its wandb run ("open" / "finished")
  cancel,    \* the cancel_job call in flight: [pc, job_id]
  resp,      \* the last response returned by a call
  registry,  \* ModelRegistry._models as register calls build it
  _instance, \* JobStore._instance
  callers,   \* thread -> its call of JobStore.instance() (pc, made, ret)
  org_datasets,  \* the datasets the Hub lists for the organisation
  cache,     \* the lru_cache of _fetch_org_datasets
  push,      \* the push_model call in flight (pc, arguments, attempts made)
  session    \* the get_db_session / session_scope block in flight

\* the state outside the job engine: no action on jobs touches it
side == <<registry, _instance, callers, org_datasets, cache, push, session>>

\* the state of the job engine: no action on `side` touches it
engine == <<jobs, queue, tasks, scratch, tracker, cancel>>

vars == <<jobs, queue, tasks, scratch, tracker, cancel, resp,
          registry, _instance, callers, org_datasets, cache, push, session>>

Ids == 1 .. (IF MaxJobs > PoolJobs THEN MaxJobs ELSE PoolJobs)

StoreIds == 1 .. StoreJobs

\* no record has an id above MaxId
MaxId == MaxJobs + PoolJobs + StoreJobs

\* ------------------------------------------------------------ Job, JobStore
Job(model_type, dataset, config, user_id, job_id) ==
  [job_id |-> job_id, user_id |-> user_id, model_type |-> model_type,
   dataset |-> dataset, config |-> config,
   status |-> PENDING, created_at |-> job_id,
   started_at |-> None, completed_at |-> None, error |-> None,
   metrics |-> NoMetrics, wandb_run_id |-> None, wandb_run_url |-> None,
   model_path |-> None,
   huggingface_model_id |-> None, progress |-> 0, logs |-> <<>>]

\* Job.add_log
add_log(job, message) == [job EXCEPT !.logs = Append(@, message)]

\* Job.complete
JobComplete(job, metrics, huggingface_model_id) ==
  add_log([job EXCEPT !.status = COMPLETED, !.completed_at = "utcnow",
                      !.metrics = metrics,
                      !.huggingface_model_id = huggingface_model_id,
                      !.progress = 100],
          "Job completed")

\* Job.fail
JobFail(job, error) ==
  add_log([job EXCEPT !.status = FAILED, !.completed_at = "utcnow",
                      !.error = error],
          "Job failed: " \o error)

\* uuid.uuid4(): a job id no record has had
NewJobId(store) == Cardinality(DOMAIN store) + 1

\* JobStore.add / JobStore.create_job: self._jobs[job_id] = job
StorePut(store, job) == (job.job_id :> job) @@ store

\* JobStore.update: setattr(job, k, v) for every given field
StoreUpdate(store, job_id, fields) ==
  [store EXCEPT ![job_id] = fields @@ @]

\* JobStore.complete
StoreComplete(store, job_id, metrics, huggingface_model_id) ==
  [store EXCEPT ![job_id] = JobComplete(@, metrics, huggingface_model_id)]

\* JobStore.fail
StoreFail(store, job_id, error) ==
  [store EXCEPT ![job_id] = JobFail(@, error)]

\* JobStore.delete_job: self._jobs.pop(job_id, None)
delete_job(store, job_id) ==
  [id \in DOMAIN store \ {job_id} |-> store[id]]

\* list(self._jobs.values()): the records in insertion order, which is the
\* order of their ids
RECURSIVE values(_, _)
values(store, n) ==
  IF n = 0 THEN <<>>
  ELSE values(store, n - 1) \o (IF n \in DOMAIN store THEN <<n>> ELSE <<>>)

\* one step of sorted(..., key=created_at, reverse=True): the sort is
\* stable, so x goes behind every element whose key is not smaller
RECURSIVE insert_desc(_, _, _)
insert_desc(store, sorted, x) ==
  IF sorted = <<>> THEN <<x>>
  ELSE IF store[Head(sorted)].created_at >= store[x].created_at
         THEN <<Head(sorted)>> \o insert_desc(store, Tail(sorted), x)
  ELSE <<x>> \o sorted

RECURSIVE sorted_desc(_, _)
sorted_desc(store, seq) ==
  IF seq = <<>> THEN <<>>
  ELSE insert_desc(store, sorted_desc(store, SubSeq(seq, 1, Len(seq) - 1)),
                   seq[Len(seq)])

\* list_jobs without the sort
list_jobs_Unsorted(store, status, user_id) ==
  LET all == values(store, MaxId)
      by_status == IF status # None
                     THEN SelectSeq(all, LAMBDA id : store[id].status = status)
                     ELSE all
  IN IF user_id # None
       THEN SelectSeq(by_status, LAMBDA id : store[id].user_id = user_id)
       ELSE by_status

\* JobStore.list_jobs: the ids of the records it returns, in order
list_jobs(store, status, user_id) ==
  LET all == values(store, MaxId)
      by_status == IF status # None
                     THEN SelectSeq(all, LAMBDA id : store[id].status = status)
                     ELSE all
      by_user == IF user_id # None
                   THEN SelectSeq(by_status, LAMBDA id : store[id].user_id = user_id)
                   ELSE by_status
  IN sorted_desc(store, by_user)

\* JobStore.get_stats
get_stats(store) ==
  LET count(status) == Cardinality({id \in DOMAIN store : store[id].status = status})
  IN [total |-> Cardinality(DOMAIN store),
      pending |-> count(PENDING), running |-> count(RUNNING),
      completed |-> count(COMPLETED), failed |-> count(FAILED)]

\* datetime.isoformat()
isoformat(t) == "iso:" \o t

\* Job.to_dict
to_dict(job) ==
  [job_id |-> job.job_id, user_id |-> job.user_id, model_type |-> job.model_type,
   dataset |-> job.dataset, config |-> job.config, status |-> job.status,
   created_at |-> isoformat(ToString(job.created_at)),
   started_at |-> IF job.started_at # None THEN isoformat(job.started_at) ELSE None,
   completed_at |-> IF job.completed_at # None THEN isoformat(job.completed_at) ELSE None,
   error |-> job.error, metrics |-> job.metrics,
   wandb_run_id |-> job.wandb_run_id, wandb_run_url |-> job.wandb_run_url,
   model_path |-> job.model_path,
   huggingface_model_id |-> job.huggingface_model_id,
   progress |-> job.progress, logs |-> job.logs]

\* JobStatus(**d): the fields the response schema declares
JobStatusSchema(d) ==
  [k \in {"job_id", "model_type", "dataset", "status", "progress", "created_at",
          "started_at", "completed_at", "error", "metrics", "wandb_run_url",
          "huggingface_model_id", "logs"} |-> d[k]]

\* ------------------------------------------------------------------- Init
\* ----------------------------------------------------------- ModelRegistry
\* the classes handed to register: BaseModel subclasses (by call shape) and
\* a class that is not a BaseModel subclass
BaseModels == {"train4", "fit"}

Classes == BaseModels \cup {"NotABaseModel"}

\* the type ids register is called with, and the ones the reads are asked for
RegisterTypes == {"linear_regression", "random_forest"}

LookupTypes == RegisterTypes \cup {"does_not_exist"}

\* the config argument of get_model
GetConfigs == {None, "n_jobs=1"}

\* _models after the modules of ml.models have been imported, in
\* registration order
ImportedModels ==
  <<[key |-> "linear_regression", cls |-> _models["linear_regression"]],
    [key |-> "custom_fit", cls |-> _models["custom_fit"]]>>

\* `key in d` for a dict d held as its items in insertion order
contains(d, key) == \E i \in 1 .. Len(d) : d[i].key = key

\* d[key]
getitem(d, key) == d[CHOOSE i \in 1 .. Len(d) : d[i].key = key].cls

\* d[key] = value: a known key keeps its position, a new key goes last
setitem(d, key, value) ==
  IF contains(d, key)
  THEN [i \in 1 .. Len(d) |->
          IF d[i].key = key THEN [key |-> key, cls |-> value] ELSE d[i]]
  ELSE Append(d, [key |-> key, cls |-> value])

\* ModelRegistry.register(model_type)(model_class) and
\* ModelRegistry.register_model(model_type, model_class)
register_model(d, model_type, model_class) ==
  IF model_class \notin BaseModels
  THEN [raised |-> TRUE, models |-> d]
  ELSE [raised |-> FALSE, models |-> setitem(d, model_type, model_class)]

\* ModelRegistry.get_model: the instance is the class and the config it
\* was constructed with (`config or {}`)
get_model(d, model_type, config) ==
  IF ~contains(d, model_type)
  THEN [raised |-> TRUE, value |-> "ValueError"]
  ELSE [raised |-> FALSE,
        value |-> getitem(d, model_type) \o "(" \o
                  (IF config = None THEN "{}" ELSE config) \o ")"]

\* list_models with the key registered last left out
list_models_DropLast(d) == [i \in 1 .. Len(d) - 1 |-> d[i].key]

\* ModelRegistry.list_models
list_models(d) == [i \in 1 .. Len(d) |-> d[i].key]

\* ------------------------------------------------------ JobStore.instance
Threads == 1 .. MaxThreads

\* JobStore._instance is None; a JobStore is named by the thread whose
\* call of cls() made it
NoInstance == 0

NoCall == [pc |-> "idle", made |-> FALSE, ret |-> NoInstance]

\* ------------------------------------------------------------ GET /datasets
\* every dataset id the organisation may hold, in sorted order
OrgDatasets == <<"GeneAlpha/prices", "GeneAlpha/sample", "GeneAlpha/yields">>

\* sorted(ds.id for ds in _hf.list_datasets(author="GeneAlpha"))
sorted_ids(listing) == SelectSeq(OrgDatasets, LAMBDA d : d \in listing)

EmptyCache == [full |-> FALSE, value |-> <<>>]

\* _fetch_org_datasets without @lru_cache
_fetch_org_datasets_NoCache(c, listing, fails) ==
  IF fails THEN [raised |-> TRUE, value |-> <<>>, cache |-> c]
  ELSE [raised |-> FALSE, value |-> sorted_ids(listing), cache |-> c]

\* _fetch_org_datasets under @lru_cache(maxsize=1): a hit returns the cached
\* list; a miss calls the Hub and caches the result unless the call raises
_fetch_org_datasets(c, listing, fails) ==
  IF c.full THEN [raised |-> FALSE, value |-> c.value, cache |-> c]
  ELSE IF fails THEN [raised |-> TRUE, value |-> <<>>, cache |-> c]
  ELSE [raised |-> FALSE, value |-> sorted_ids(listing),
        cache |-> [full |-> TRUE, value |-> sorted_ids(listing)]]

\* ------------------------------------------------- the adapter of _run_job
\* common_kw: progress_cb and artefact_dir
CommonKw == {"progress_cb", "artefact_dir"}

\* the keywords of the model.fit call
PathKw == {"train_data_path", "val_data_path", "target_column", "feature_columns"}

\* the keywords of the four-array model.train call
ArrayKw == {"X_train", "y_train", "X_val", "y_val"}

\* the names tried for the path parameter of a single-path train, in order
PathNames == <<"dataset_path", "data_path", "csv_path">>

\* next((k for k in names if k in want), None)
first_in(names, want) ==
  IF \E i \in 1 .. Len(names) : names[i] \in want
  THEN names[CHOOSE i \in 1 .. Len(names) :
               /\ names[i] \in want
               /\ \A k \in 1 .. (i - 1) : names[k] \notin want]
  ELSE None

\* one call of an entry point: the keywords passed, the positional
\* arguments, and whether the method's parameters (params) take them
Call(entry, positional, kw, params) ==
  [entry |-> entry, positional |-> positional, kw |-> kw,
   binds |-> kw \subseteq params]

\* the adapter with the two hasattr tests in the other order: train first
adapter_TrainFirst(model) ==
  IF model.train
  THEN [calls |-> <<Call("train", <<>>, ArrayKw \cup (CommonKw \cap model.want),
                         model.want)>>,
        raised |-> None]
  ELSE IF model.fit
  THEN [calls |-> <<Call("fit", <<>>, PathKw \cup CommonKw, model.fit_want)>>,
        raised |-> None]
  ELSE [calls |-> <<>>, raised |-> "AttributeError"]

\* the training call _run_job makes for a strategy: model.fit tells
\* hasattr(model, "fit") and fit_want the parameters of fit, model.train
\* tells hasattr(model, "train") and want is
\* inspect.signature(model.train).parameters.keys()
adapter(model) ==
  IF model.fit
  THEN [calls |-> <<Call("fit", <<>>, PathKw \cup CommonKw, model.fit_want)>>,
        raised |-> None]
  ELSE IF model.train
  THEN IF {"X_train", "y_train"} \subseteq model.want
       THEN [calls |-> <<Call("train", <<>>,
                              ArrayKw \cup (CommonKw \cap model.want),
                              model.want)>>,
             raised |-> None]
       ELSE LET path_kw == first_in(PathNames, model.want) IN
              [calls |-> <<Call("train",
                                IF path_kw = None THEN <<"train_path">> ELSE <<>>,
                                (IF path_kw = None THEN {} ELSE {path_kw})
                                  \cup (CommonKw \cap model.want)
                                  \cup ({"target_column", "feature_columns"}
                                          \cap model.want),
                                model.want)>>,
               raised |-> None]
  ELSE [calls |-> <<>>, raised |-> "AttributeError"]

\* the strategies handed to the adapter: fit absent, path-based with and
\* without common_kw, or array-based; train absent or with any parameters
FitParams == {PathKw, PathKw \cup CommonKw, {"X", "y"}}

TrainParams ==
  SUBSET {"X_train", "y_train", "X_val", "y_val", "progress_cb", "data_path",
          "csv_path"}

Strategies ==
  {m \in [fit : BOOLEAN, fit_want : FitParams \cup {{}}, train : BOOLEAN,
          want : TrainParams] :
     /\ m.fit <=> m.fit_want # {}
     /\ ~m.train => m.want = {}}

\* -------------------------------------------------------------- push_model
\* no push_model call is in flight
NoPush ==
  [pc |-> "idle", local_dir |-> None, repo_id |-> None, attempt |-> 0,
   made |-> <<>>]

\* --------------------------------------- get_db_session and session_scope
ScopeFns == {"get_db_session", "session_scope"}

\* the exceptions the body of the with block and session.commit() raise
BodyErrors == {"ValueError", "OperationalError"}

CommitErrors == {"IntegrityError"}

\* no with block is open
NoSession ==
  [pc |-> "idle", fn |-> None, calls |-> <<>>, committed |-> FALSE,
   thrown |-> None, exc |-> None]

\* -------------------------------------------------------------- initial state
Idle == [pc |-> "idle", job_id |-> 0]

NoResp == [op |-> "none", result |-> "none"]

\* the process after import, before any request: everything but the registry
InitProcess ==
  /\ jobs = <<>>
  /\ queue = <<>>
  /\ tasks = <<>>
  /\ scratch = {}
  /\ tracker = <<>>
  /\ cancel = Idle
  /\ resp = NoResp
  /\ _instance = NoInstance
  /\ callers = [t \in Threads |-> NoCall]
  /\ org_datasets = HubDatasets
  /\ cache = EmptyCache
  /\ push = NoPush
  /\ session = NoSession

Init ==
  /\ InitProcess
  /\ registry = ImportedModels

\* the class body of ModelRegistry has run, no model module is imported yet
RegistryInit ==
  /\ InitProcess
  /\ registry = <<>>

\* --------------------------------------------------------------- admission
\* a _run_job call that has returned or raised: its locals are gone
EndedTask(task, exc) ==
  [task EXCEPT !.pc = "ended", !.exc = exc, !.logs = <<>>,
               !.metrics = NoMetrics, !.repo_url = None]

NewTask(req) ==
  [pc |-> "queued", req |-> req,
   model |-> [shape |-> _models[req.model_type], config |-> {}],
   logs |-> <<>>, metrics |-> NoMetrics, repo_url |-> None, exc |-> None]

\* str(e) of the ValueError ensure_dataset_exists raises
DatasetError == "Dataset not found or inaccessible."

\* str(e) of the ValueError ModelRegistry.get_model raises
ModelError == "Model not registered."

\* start_job with job_store.add moved ahead of ModelRegistry.get_model
StartJob_AddBeforeGetModel(req, limit) ==
  \/ /\ ~ensure_dataset_exists(req.dataset)
     /\ resp' = [op |-> "start_job", result |-> "ValueError",
                 error |-> DatasetError]
     /\ UNCHANGED <<side, jobs, queue, tasks, scratch, tracker, cancel>>
  \/ /\ ensure_dataset_exists(req.dataset)
     /\ ~is_registered(req.model_type)
     /\ Cardinality(DOMAIN jobs) < limit
     /\ jobs' = StorePut(jobs, Job(req.model_type, req.dataset, req.config,
                                   req.user_id, NewJobId(jobs)))
     /\ resp' = [op |-> "start_job", result |-> "ValueError",
                 error |-> ModelError]
     /\ UNCHANGED <<side, queue, tasks, scratch, tracker, cancel>>
  \/ /\ ensure_dataset_exists(req.dataset)
     /\ is_registered(req.model_type)
     /\ Cardinality(DOMAIN jobs) < limit
     /\ LET job_id == NewJobId(jobs) IN
          /\ jobs' = StorePut(jobs, Job(req.model_type, req.dataset, req.config,
                                        req.user_id, job_id))
          /\ queue' = Append(queue, job_id)
          /\ tasks' = (job_id :> NewTask(req)) @@ tasks
     /\ resp' = [op |-> "start_job", result |-> "job_id"]
     /\ UNCHANGED <<side, scratch, tracker, cancel>>

\* start_job that returns only once a thread of EXECUTOR is free
StartJob_WaitsForSlot(req, limit) ==
  \/ /\ ~ensure_dataset_exists(req.dataset)
     /\ resp' = [op |-> "start_job", result |-> "ValueError",
                 error |-> DatasetError]
     /\ UNCHANGED <<side, jobs, queue, tasks, scratch, tracker, cancel>>
  \/ /\ ensure_dataset_exists(req.dataset)
     /\ ~is_registered(req.model_type)
     /\ resp' = [op |-> "start_job", result |-> "ValueError",
                 error |-> ModelError]
     /\ UNCHANGED <<side, jobs, queue, tasks, scratch, tracker, cancel>>
  \/ /\ ensure_dataset_exists(req.dataset)
     /\ is_registered(req.model_type)
     /\ Cardinality(DOMAIN jobs) < limit
     /\ Cardinality({j \in DOMAIN tasks :
                       tasks[j].pc \notin {"queued", "ended"}}) < MaxWorkers
     /\ LET job_id == NewJobId(jobs) IN
          /\ jobs' = StorePut(jobs, Job(req.model_type, req.dataset, req.config,
                                        req.user_id, job_id))
          /\ queue' = Append(queue, job_id)
          /\ tasks' = (job_id :> NewTask(req)) @@ tasks
     /\ resp' = [op |-> "start_job", result |-> "job_id"]
     /\ UNCHANGED <<side, scratch, tracker, cancel>>

\* TrainingService.start_job; `limit` bounds the records of a run
StartJob(req, limit) ==
  \/ /\ ~ensure_dataset_exists(req.dataset)
     /\ resp' = [op |-> "start_job", result |-> "ValueError",
                 error |-> DatasetError]
     /\ UNCHANGED <<side, jobs, queue, tasks, scratch, tracker, cancel>>
  \/ /\ ensure_dataset_exists(req.dataset)
     /\ ~is_registered(req.model_type)
     /\ resp' = [op |-> "start_job", result |-> "ValueError",
                 error |-> ModelError]
     /\ UNCHANGED <<side, jobs, queue, tasks, scratch, tracker, cancel>>
  \/ /\ ensure_dataset_exists(req.dataset)
     /\ is_registered(req.model_type)
     /\ Cardinality(DOMAIN jobs) < limit
     /\ LET job_id == NewJobId(jobs) IN
          /\ jobs' = StorePut(jobs, Job(req.model_type, req.dataset, req.config,
                                        req.user_id, job_id))
          /\ queue' = Append(queue, job_id)
          /\ tasks' = (job_id :> NewTask(req)) @@ tasks
     /\ resp' = [op |-> "start_job", result |-> "job_id"]
     /\ UNCHANGED <<side, scratch, tracker, cancel>>

\* POST /training/start (start_training)
StartTraining(req, limit) ==
  /\ cancel.pc = "idle"
  /\ \/ /\ ~is_registered(req.model_type)
        /\ resp' = [op |-> "start_training", result |-> "HTTP400"]
        /\ UNCHANGED jobs
     \/ /\ is_registered(req.model_type)
        /\ Cardinality(DOMAIN jobs) < limit
        /\ LET job_id == NewJobId(jobs)
               config == IF req.upload_to_hub
                           THEN req.config \cup {<<"upload_to_hub", "True">>}
                           ELSE req.config
           IN jobs' = StorePut(jobs, Job(req.model_type, req.dataset, config,
                                         None, job_id))
        \* training_service.train_model_async: AttributeError
        /\ resp' = [op |-> "start_training", result |-> "HTTP500"]
  /\ UNCHANGED <<side, queue, tasks, scratch, tracker, cancel>>

\* ------------------------------------------------------------------ cancel
\* cancel_job, from job_store.get_job to the status check
CancelCheck(job_id) ==
  /\ cancel.pc = "idle"
  /\ \/ /\ job_id \notin DOMAIN jobs
        /\ resp' = [op |-> "cancel", result |-> "HTTP404"]
        /\ UNCHANGED cancel
     \/ /\ job_id \in DOMAIN jobs
        /\ jobs[job_id].status \notin {PENDING, RUNNING}
        /\ resp' = [op |-> "cancel", result |-> "HTTP400"]
        /\ UNCHANGED cancel
     \/ /\ job_id \in DOMAIN jobs
        /\ jobs[job_id].status \in {PENDING, RUNNING}
        /\ cancel' = [pc |-> "checked", job_id |-> job_id]
        /\ UNCHANGED resp
  /\ UNCHANGED <<side, jobs, queue, tasks, scratch, tracker>>

\* cancel_job, job.status = CANCELLED and job_store.update_job(job)
CancelWrite ==
  /\ cancel.pc = "checked"
  /\ jobs' = [jobs EXCEPT ![cancel.job_id].status = CANCELLED]
  \* JobStore has no update_job: AttributeError
  /\ resp' = [op |-> "cancel", result |-> "HTTP500"]
  /\ cancel' = Idle
  /\ UNCHANGED <<side, queue, tasks, scratch, tracker>>

\* ---------------------------------------------------------------- _run_job
\* the _run_job calls a thread of EXECUTOR is executing
InProgress == {j \in DOMAIN tasks : tasks[j].pc \notin {"queued", "ended"}}

\* log_step that hands update a list holding the new entry only
log_step_OnlyNew(store, job_id, logs, msg) ==
  StoreUpdate(store, job_id, [logs |-> <<msg>>])

\* log_step: logs.append(...), job_store.update(job_id, logs=logs)
log_step(store, job_id, logs, msg) ==
  StoreUpdate(store, job_id, [logs |-> Append(logs, msg)])

\* Raise whose finally clause removes storage/artifacts, the parent of
\* every job's directory
Raise_RmtreeParent(j, store, error) ==
  /\ jobs' = StoreFail(store, j, error)
  /\ tasks' = [tasks EXCEPT ![j] = EndedTask(@, error)]
  /\ scratch' = {}

\* Raise with the finally clause left out
Raise_NoRmtree(j, store, error) ==
  /\ jobs' = StoreFail(store, j, error)
  /\ tasks' = [tasks EXCEPT ![j] = EndedTask(@, error)]
  /\ UNCHANGED scratch

\* a statement of the try block raises: the except clause
\* (job_store.fail(job_id, error=str(e))) and the finally clause (rmtree) run
Raise(j, store, error) ==
  /\ jobs' = StoreFail(store, j, error)
  /\ tasks' = [tasks EXCEPT ![j] = EndedTask(@, error)]
  /\ scratch' = scratch \ {j}

\* WorkerStart on an executor that starts a thread for every submitted call
WorkerStart_NoMaxWorkers(j, E) ==
  /\ queue # <<>>
  /\ j = Head(queue)
  /\ queue' = Tail(queue)
  /\ \/ /\ scratch' = scratch \cup {j}
        /\ tasks' = [tasks EXCEPT ![j].pc = "prepare"]
     \/ /\ "mkdir" \in E.faults
        /\ tasks' = [tasks EXCEPT ![j] = EndedTask(@, "mkdir")]
        /\ UNCHANGED scratch
  /\ UNCHANGED <<side, jobs, tracker, cancel, resp>>

\* a thread of EXECUTOR takes the oldest queued call and _run_job begins:
\* artefact_dir.mkdir(...), which is outside the try block
WorkerStart(j, E) ==
  /\ queue # <<>>
  /\ j = Head(queue)
  /\ Cardinality(InProgress) < MaxWorkers
  /\ queue' = Tail(queue)
  /\ \/ /\ scratch' = scratch \cup {j}
        /\ tasks' = [tasks EXCEPT ![j].pc = "prepare"]
     \/ /\ "mkdir" \in E.faults
        /\ tasks' = [tasks EXCEPT ![j] = EndedTask(@, "mkdir")]
        /\ UNCHANGED scratch
  /\ UNCHANGED <<side, jobs, tracker, cancel, resp>>

\* log_step("Downloading & splitting dataset..."), _prepare_dataset
PrepareDataset(j, E) ==
  /\ j \in DOMAIN tasks
  /\ tasks[j].pc = "prepare"
  /\ LET s1 == log_step(jobs, j, tasks[j].logs, "Downloading & splitting dataset...") IN
       \/ /\ jobs' = s1
          /\ tasks' = [tasks EXCEPT ![j].pc = "init", ![j].logs = s1[j].logs]
          /\ UNCHANGED scratch
       \/ /\ "prepare" \in E.faults
          /\ Raise(j, s1, "prepare")
  /\ UNCHANGED <<side, queue, tracker, cancel, resp>>

\* log_step("Initialising ..."), model = model_cls (the instance start_job
\* got from get_model is not callable), wandb.init, update(wandb_run_url)
InitModel(j, E) ==
  /\ j \in DOMAIN tasks
  /\ tasks[j].pc = "init"
  /\ LET s1 == log_step(jobs, j, tasks[j].logs, "Initialising model...") IN
       \/ /\ jobs' = StoreUpdate(s1, j, [wandb_run_url |-> "wandb.url"])
          /\ tracker' = (j :> "open") @@ tracker
          /\ tasks' = [tasks EXCEPT ![j].pc = "load", ![j].logs = s1[j].logs]
          /\ UNCHANGED scratch
       \/ /\ "wandb_init" \in E.faults
          /\ Raise(j, s1, "wandb_init")
          /\ UNCHANGED tracker
  /\ UNCHANGED <<side, queue, cancel, resp>>

\* log_step("Training...") twice, pd.read_csv and the column selection (a
\* failure here is the "train" fault: same handler, same record)
LoadData(j) ==
  /\ j \in DOMAIN tasks
  /\ tasks[j].pc = "load"
  /\ LET s1 == log_step(jobs, j, tasks[j].logs, "Training...") IN
       jobs' = log_step(s1, j, s1[j].logs, "Training...")
  /\ tasks' = [tasks EXCEPT ![j].pc = "train", ![j].logs = jobs'[j].logs]
  /\ UNCHANGED <<side, queue, scratch, tracker, cancel, resp>>

\* the strategy calls progress_cb(p), any number of times while it trains:
\* job_store.update(job_id, progress=p); only model.fit is handed
\* progress_cb (a train4 strategy does not take it)
ProgressCb(j, E) ==
  /\ j \in DOMAIN tasks
  /\ tasks[j].pc = "train"
  /\ tasks[j].model.shape = "fit"
  /\ \E p \in E.progress : jobs' = StoreUpdate(jobs, j, [progress |-> p])
  /\ UNCHANGED <<side, queue, tasks, scratch, tracker, cancel, resp>>

\* model.fit(...) / model.train(...) returns its metrics or raises
Train(j, E) ==
  /\ j \in DOMAIN tasks
  /\ tasks[j].pc = "train"
  /\ \/ /\ \E m \in E.metrics :
             tasks' = [tasks EXCEPT ![j].pc = "finish", ![j].metrics = m]
        /\ UNCHANGED <<side, jobs, scratch>>
     \/ /\ "train" \in E.faults
        /\ Raise(j, jobs, "train")
  /\ UNCHANGED <<side, queue, tracker, cancel, resp>>

\* wandb_run.log(metrics), wandb_run.finish(), model.save(model_path),
\* log_step("Saving artefacts ...")
SaveModel(j, E) ==
  /\ j \in DOMAIN tasks
  /\ tasks[j].pc = "finish"
  /\ \/ /\ "save" \in E.faults
        /\ tracker' = [tracker EXCEPT ![j] = "finished"]
        /\ Raise(j, jobs, "save")
     \/ /\ tracker' = [tracker EXCEPT ![j] = "finished"]
        /\ jobs' = log_step(jobs, j, tasks[j].logs, "Saving artefacts...")
        /\ tasks' = [tasks EXCEPT
                       ![j].pc = IF tasks[j].req.upload_to_hub THEN "upload" ELSE "complete",
                       ![j].logs = jobs'[j].logs]
        /\ UNCHANGED scratch
  /\ UNCHANGED <<side, queue, cancel, resp>>

\* build_repo_id, log_step("Pushing ..."), push_model, log_step("Upload successful ...")
UploadModel(j, E) ==
  /\ j \in DOMAIN tasks
  /\ tasks[j].pc = "upload"
  /\ LET req == tasks[j].req
         repo_id == build_repo_id(req.user_id, req.model_type, LastSegment(req.dataset))
         s1 == log_step(jobs, j, tasks[j].logs, "Pushing to HF repo...")
     IN \E outcomes \in UploadOutcomes(E) :
          LET r == push_model(outcomes, repo_id) IN
            IF r.raised
              THEN Raise(j, s1, r.value)
              ELSE /\ jobs' = log_step(s1, j, s1[j].logs, "Upload successful")
                   /\ tasks' = [tasks EXCEPT ![j].pc = "complete",
                                             ![j].repo_url = r.value,
                                             ![j].logs = jobs'[j].logs]
                   /\ UNCHANGED scratch
  /\ UNCHANGED <<side, queue, tracker, cancel, resp>>

\* job_store.complete(job_id, metrics=..., huggingface_model_id=repo_url)
\* and the finally clause
Complete(j) ==
  /\ j \in DOMAIN tasks
  /\ tasks[j].pc = "complete"
  /\ jobs' = StoreComplete(jobs, j, tasks[j].metrics, tasks[j].repo_url)
  /\ tasks' = [tasks EXCEPT ![j] = EndedTask(@, None)]
  /\ scratch' = scratch \ {j}
  /\ UNCHANGED <<side, queue, tracker, cancel, resp>>

\* ------------------------------------------- JobStore and the /jobs routes
\* what callers pass to JobStore.update, JobStore.complete and JobStore.fail
UpdateFields == {[progress |-> 50], [logs |-> <<"Training...">>]}

\* the values of the `status` query parameter
StatusParams == {None, "", "done", PENDING, COMPLETED, CANCELLED}

Limits == {1, 2}

Offsets == 0 .. 1

\* JobStore.add with a fresh uuid4 as job_id: the id of no record in the
\* store and of no Job a handler still holds
AddCall(req) ==
  /\ Cardinality(DOMAIN jobs) < StoreJobs
  /\ NewJobId(jobs) \notin DOMAIN jobs \cup {cancel.job_id}
  /\ jobs' = StorePut(jobs, Job(req.model_type, req.dataset, req.config,
                                req.user_id, NewJobId(jobs)))
  /\ resp' = [op |-> "add", result |-> "None"]
  /\ UNCHANGED <<side, queue, tasks, scratch, tracker, cancel>>

\* JobStore.create_job
CreateJobCall(req) ==
  /\ Cardinality(DOMAIN jobs) < StoreJobs
  /\ NewJobId(jobs) \notin DOMAIN jobs \cup {cancel.job_id}
  /\ jobs' = StorePut(jobs, Job(req.model_type, req.dataset, req.config,
                                None, NewJobId(jobs)))
  /\ resp' = [op |-> "create_job", result |-> "Job"]
  /\ UNCHANGED <<side, queue, tasks, scratch, tracker, cancel>>

\* JobStore.delete_job
DeleteCall(job_id) ==
  /\ jobs' = delete_job(jobs, job_id)
  /\ resp' = [op |-> "delete_job",
              result |-> IF job_id \in DOMAIN jobs THEN "True" ELSE "False"]
  /\ UNCHANGED <<side, queue, tasks, scratch, tracker, cancel>>

\* JobStore.update that inserts a record for an id it does not know
UpdateCall_SetDefault(job_id, fields) ==
  /\ jobs' = IF job_id \in DOMAIN jobs
               THEN StoreUpdate(jobs, job_id, fields)
               ELSE StorePut(jobs, fields @@ Job(None, None, {}, None, job_id))
  /\ resp' = [op |-> "update", result |-> "None"]
  /\ UNCHANGED <<side, queue, tasks, scratch, tracker, cancel>>

\* JobStore.update: self._jobs[job_id] raises KeyError for an unknown id
UpdateCall(job_id, fields) ==
  /\ IF job_id \in DOMAIN jobs
       THEN /\ jobs' = StoreUpdate(jobs, job_id, fields)
            /\ resp' = [op |-> "update", result |-> "None"]
       ELSE /\ resp' = [op |-> "update", result |-> "KeyError"]
            /\ UNCHANGED jobs
  /\ UNCHANGED <<side, queue, tasks, scratch, tracker, cancel>>

\* JobStore.complete; its caller ends a job once
CompleteCall(job_id, metrics) ==
  /\ IF job_id \in DOMAIN jobs
       THEN /\ jobs[job_id].completed_at = None
            /\ jobs' = StoreComplete(jobs, job_id, metrics, None)
            /\ resp' = [op |-> "complete", result |-> "None"]
       ELSE /\ resp' = [op |-> "complete", result |-> "KeyError"]
            /\ UNCHANGED jobs
  /\ UNCHANGED <<side, queue, tasks, scratch, tracker, cancel>>

\* JobStore.fail; its caller ends a job once
FailCall(job_id, error) ==
  /\ IF job_id \in DOMAIN jobs
       THEN /\ jobs[job_id].completed_at = None
            /\ jobs' = StoreFail(jobs, job_id, error)
            /\ resp' = [op |-> "fail", result |-> "None"]
       ELSE /\ resp' = [op |-> "fail", result |-> "KeyError"]
            /\ UNCHANGED jobs
  /\ UNCHANGED <<side, queue, tasks, scratch, tracker, cancel>>

\* GET /jobs/{job_id} that records the read in the job's logs
GetJobStatus_LogsRead(job_id) ==
  /\ cancel.pc = "idle"
  /\ job_id \in DOMAIN jobs
  /\ jobs[job_id].logs = <<>>
  /\ jobs' = [jobs EXCEPT ![job_id] = add_log(@, "read")]
  /\ resp' = [op |-> "get_job_status", result |-> "HTTP200", job_id |-> job_id,
              body |-> JobStatusSchema(to_dict(jobs'[job_id]))]
  /\ UNCHANGED <<side, queue, tasks, scratch, tracker, cancel>>

\* GET /jobs/{job_id} (get_job_status)
GetJobStatus(job_id) ==
  /\ cancel.pc = "idle"
  /\ IF job_id \notin DOMAIN jobs
       THEN resp' = [op |-> "get_job_status", result |-> "HTTP404"]
       ELSE resp' = [op |-> "get_job_status", result |-> "HTTP200",
                     job_id |-> job_id,
                     body |-> JobStatusSchema(to_dict(jobs[job_id]))]
  /\ UNCHANGED <<side, jobs, queue, tasks, scratch, tracker, cancel>>

\* all_jobs[offset:offset + limit]
Slice(seq, offset, limit) ==
  SubSeq(seq, offset + 1,
         IF offset + limit < Len(seq) THEN offset + limit ELSE Len(seq))

\* GET /jobs/ (list_jobs); the response is kept with the query it answers
\* and names each listed record by the job_id of its JobStatus(**job.to_dict())
ListJobsRoute(status, limit, offset) ==
  /\ cancel.pc = "idle"
  /\ IF status \notin {None, ""} /\ status \notin JobStatus
       THEN resp' = [op |-> "list_jobs", result |-> "HTTP400",
                     query |-> [status |-> status, limit |-> limit, offset |-> offset]]
       ELSE LET status_enum == IF status \in {None, ""} THEN None ELSE status
                all_jobs == list_jobs(jobs, status_enum, None)
                paginated_jobs == Slice(all_jobs, offset, limit)
            IN resp' = [op |-> "list_jobs", result |-> "HTTP200",
                        query |-> [status |-> status, limit |-> limit, offset |-> offset],
                        total |-> Len(all_jobs),
                        jobs |-> [i \in DOMAIN paginated_jobs |->
                                    JobStatusSchema(to_dict(jobs[paginated_jobs[i]])).job_id]]
  /\ UNCHANGED <<side, jobs, queue, tasks, scratch, tracker, cancel>>

\* GET /jobs/stats/summary (get_job_statistics)
GetStats ==
  /\ cancel.pc = "idle"
  /\ resp' = [op |-> "get_stats", result |-> "HTTP200", body |-> get_stats(jobs)]
  /\ UNCHANGED <<side, jobs, queue, tasks, scratch, tracker, cancel>>

\* JobStore.add under a job_id the caller chooses
AddCallWithId(job_id, req) ==
  /\ job_id \in DOMAIN jobs \/ Cardinality(DOMAIN jobs) < StoreJobs
  /\ jobs' = StorePut(jobs, Job(req.model_type, req.dataset, req.config,
                                req.user_id, job_id))
  /\ resp' = [op |-> "add", result |-> "None"]
  /\ UNCHANGED <<side, queue, tasks, scratch, tracker, cancel>>

\* -------------------------------------------------- ModelRegistry's methods
Register(model_type, model_class) ==
  /\ LET r == register_model(registry, model_type, model_class) IN
       /\ registry' = r.models
       /\ resp' = [op |-> "register", model_type |-> model_type,
                   raised |-> r.raised]
  /\ UNCHANGED <<engine, _instance, callers, org_datasets, cache, push, session>>

GetModel(model_type, config) ==
  /\ LET r == get_model(registry, model_type, config) IN
       resp' = [op |-> "get_model", model_type |-> model_type,
                raised |-> r.raised, result |-> r.value]
  /\ UNCHANGED <<engine, side>>

ListModels ==
  /\ resp' = [op |-> "list_models", result |-> list_models(registry)]
  /\ UNCHANGED <<engine, side>>

IsRegistered(model_type) ==
  /\ resp' = [op |-> "is_registered", model_type |-> model_type,
              result |-> contains(registry, model_type)]
  /\ UNCHANGED <<engine, side>>

\* ------------------------------------------------------ JobStore.instance()
\* thread t enters instance() and evaluates `cls._instance is None`
InstanceTest(t) ==
  /\ callers[t].pc = "idle"
  /\ callers' = [callers EXCEPT ![t].pc =
                   IF _instance = NoInstance THEN "new" ELSE "return"]
  /\ UNCHANGED <<engine, resp, registry, _instance, org_datasets, cache, push, session>>

\* cls._instance = cls()
InstanceNew(t) ==
  /\ callers[t].pc = "new"
  /\ _instance' = t
  /\ callers' = [callers EXCEPT ![t].pc = "return", ![t].made = TRUE]
  /\ UNCHANGED <<engine, resp, registry, org_datasets, cache, push, session>>

\* return cls._instance
InstanceReturn(t) ==
  /\ callers[t].pc = "return"
  /\ callers' = [callers EXCEPT ![t].pc = "idle", ![t].ret = _instance]
  /\ UNCHANGED <<engine, resp, registry, _instance, org_datasets, cache, push, session>>

\* ------------------------------------------------------------ GET /datasets
\* the organisation's datasets on the Hub change
HubChange(listing) ==
  /\ listing # org_datasets
  /\ org_datasets' = listing
  /\ UNCHANGED <<engine, resp, registry, _instance, callers, cache, push, session>>

\* list_datasets: _fetch_org_datasets() is evaluated twice, for "datasets"
\* and then for "total"; the Hub holds `between` at the second evaluation;
\* fails1 and fails2 say whether a call of the Hub made by the first and by
\* the second evaluation raises
ListDatasets(between, fails1, fails2) ==
  /\ LET first == _fetch_org_datasets(cache, org_datasets, fails1)
         second == _fetch_org_datasets(first.cache, between, fails2)
     IN  /\ cache' = second.cache
         /\ resp' = IF first.raised \/ second.raised
                    THEN [op |-> "list_datasets", result |-> "HTTP500"]
                    ELSE [op |-> "list_datasets", result |-> "HTTP200",
                          datasets |-> first.value,
                          total |-> Len(second.value)]
  /\ org_datasets' = between
  /\ UNCHANGED <<engine, registry, _instance, callers, push, session>>

\* ---------------------------------------------- push_model, step by step
\* the folders and repositories push_model is called with
PushDirs == {"storage/artifacts/1", "storage/artifacts/2"}

PushRepos ==
  {build_repo_id(req.user_id, req.model_type, LastSegment(req.dataset)) :
     req \in {r \in Requests : r.upload_to_hub}}

\* push_model(local_dir, repo_id) is called: the loop starts at attempt 1
PushCall(local_dir, repo_id) ==
  /\ push.pc = "idle"
  /\ push' = [pc |-> "try", local_dir |-> local_dir, repo_id |-> repo_id,
              attempt |-> 1, made |-> <<>>]
  /\ UNCHANGED <<engine, resp, registry, _instance, callers, org_datasets,
                 cache, session>>

\* PushAttempt with the return statement left out: the loop goes on after
\* an upload that went through
PushAttempt_NoReturn(ok) ==
  /\ push.pc = "try"
  /\ push' = [push EXCEPT !.made = Append(@, ok),
                          !.pc = IF ok /\ push.attempt < PushAttempts
                                   THEN "try" ELSE "sleep",
                          !.attempt = IF ok /\ push.attempt < PushAttempts
                                        THEN @ + 1 ELSE @]
  /\ UNCHANGED <<engine, resp, registry, _instance, callers, org_datasets,
                 cache, session>>

\* the try block of one attempt: create_repo and upload_folder go through
\* and push_model returns the URL, or one of them raises and the except
\* clause is entered
PushAttempt(ok) ==
  /\ push.pc = "try"
  /\ IF ok
       THEN /\ push' = NoPush
            /\ resp' = [op |-> "push_model", raised |-> FALSE,
                        result |-> "https://huggingface.co/" \o push.repo_id,
                        repo_id |-> push.repo_id,
                        made |-> Append(push.made, TRUE)]
       ELSE /\ push' = [push EXCEPT !.made = Append(@, FALSE), !.pc = "sleep"]
            /\ UNCHANGED resp
  /\ UNCHANGED <<engine, registry, _instance, callers, org_datasets, cache,
                 session>>

\* time.sleep(2 ** attempt) ends: the next attempt begins, or the loop is
\* over and RuntimeError is raised
PushSleep ==
  /\ push.pc = "sleep"
  /\ IF push.attempt < PushAttempts
       THEN /\ push' = [push EXCEPT !.attempt = @ + 1, !.pc = "try"]
            /\ UNCHANGED resp
       ELSE /\ push' = NoPush
            /\ resp' = [op |-> "push_model", raised |-> TRUE,
                        result |-> PushError, repo_id |-> push.repo_id,
                        made |-> push.made]
  /\ UNCHANGED <<engine, registry, _instance, callers, org_datasets, cache,
                 session>>

\* _run_job reaches the training call with `model` as its strategy
Adapt(model) ==
  /\ LET r == adapter(model) IN
       resp' = [op |-> "adapter", model |-> model, calls |-> r.calls,
                raised |-> r.raised]
  /\ UNCHANGED <<engine, side>>

\* --------------------------------------- get_db_session and session_scope
\* `with fn() as session:` is entered: session = SessionLocal(), yield
ScopeEnter(fn) ==
  /\ session.pc = "idle"
  /\ session' = [NoSession EXCEPT !.pc = "body", !.fn = fn]
  /\ UNCHANGED <<engine, resp, registry, _instance, callers, org_datasets,
                 cache, push>>

\* the body of the with block ends: normally (outcome = None) or by raising
ScopeBody(outcome) ==
  /\ session.pc = "body"
  /\ session' = IF outcome = None
                  THEN [session EXCEPT !.pc = "commit"]
                  ELSE [session EXCEPT !.pc = "except", !.thrown = outcome]
  /\ UNCHANGED <<engine, resp, registry, _instance, callers, org_datasets,
                 cache, push>>

\* session.commit(): goes through or raises
ScopeCommit(outcome) ==
  /\ session.pc = "commit"
  /\ session' = IF outcome = None
                  THEN [session EXCEPT !.pc = "finally", !.committed = TRUE,
                                       !.calls = Append(@, "commit")]
                  ELSE [session EXCEPT !.pc = "except", !.thrown = outcome,
                                       !.calls = Append(@, "commit")]
  /\ UNCHANGED <<engine, resp, registry, _instance, callers, org_datasets,
                 cache, push>>

\* the except clause without its raise statement
ScopeExcept_NoRaise ==
  /\ session.pc = "except"
  /\ session' = [session EXCEPT !.pc = "finally",
                                !.calls = Append(@, "rollback")]
  /\ UNCHANGED <<engine, resp, registry, _instance, callers, org_datasets,
                 cache, push>>

\* except Exception as e: session.rollback(), logger.error(...), raise
ScopeExcept ==
  /\ session.pc = "except"
  /\ session' = [session EXCEPT !.pc = "finally", !.exc = session.thrown,
                                !.calls = Append(@, "rollback")]
  /\ UNCHANGED <<engine, resp, registry, _instance, callers, org_datasets,
                 cache, push>>

\* finally: session.close(); the with statement ends, normally or with the
\* exception in flight
ScopeFinally ==
  /\ session.pc = "finally"
  /\ resp' = [op |-> session.fn, raised |-> session.exc # None,
              result |-> session.exc, thrown |-> session.thrown,
              committed |-> session.committed,
              calls |-> Append(session.calls, "close")]
  /\ session' = NoSession
  /\ UNCHANGED <<engine, registry, _instance, callers, org_datasets, cache,
                 push>>

\* ------------------------------------------------------------ specifications
JobIds == 1 .. MaxJobs

Next ==
  \/ \E req \in Requests : StartJob(req, MaxJobs)
  \/ \E req \in Requests : StartTraining(req, MaxJobs)
  \/ \E j \in JobIds : CancelCheck(j)
  \/ CancelWrite
  \/ \E j \in JobIds : WorkerStart(j, AnyEnv)
  \/ \E j \in JobIds : PrepareDataset(j, AnyEnv)
  \/ \E j \in JobIds : InitModel(j, AnyEnv)
  \/ \E j \in JobIds : LoadData(j)
  \/ \E j \in JobIds : ProgressCb(j, AnyEnv)
  \/ \E j \in JobIds : Train(j, AnyEnv)
  \/ \E j \in JobIds : SaveModel(j, AnyEnv)
  \/ \E j \in JobIds : UploadModel(j, AnyEnv)
  \/ \E j \in JobIds : Complete(j)

Spec == Init /\ [][Next]_vars

\* N concurrent submits against EXECUTOR: requests for the repository's
\* own model, without publication
PoolIds == 1 .. PoolJobs

PoolRequests ==
  {req \in Requests : ~req.upload_to_hub /\ req.model_type # "custom_fit"}

PoolNext ==
  \/ \E req \in PoolRequests : StartJob(req, PoolJobs)
  \/ \E j \in PoolIds : WorkerStart(j, PoolEnv)
  \/ \E j \in PoolIds : PrepareDataset(j, PoolEnv)
  \/ \E j \in PoolIds : InitModel(j, PoolEnv)
  \/ \E j \in PoolIds : LoadData(j)
  \/ \E j \in PoolIds : Train(j, PoolEnv)
  \/ \E j \in PoolIds : SaveModel(j, PoolEnv)
  \/ \E j \in PoolIds : Complete(j)

PoolSpec == Init /\ [][PoolNext]_vars

\* the JobStore under any caller: records are added, updated, completed,
\* failed and deleted in any order, under ids the store may not know
StoreRequests ==
  {req \in Requests : ~req.upload_to_hub /\ req.model_type = "linear_regression"
                        /\ req.dataset \in HubDatasets}

StoreNext ==
  \/ \E req \in StoreRequests : AddCall(req)
  \/ \E id \in StoreIds : DeleteCall(id)
  \/ \E id \in StoreIds, fields \in UpdateFields : UpdateCall(id, fields)
  \/ \E id \in StoreIds : CompleteCall(id, SomeMetrics)
  \/ \E id \in StoreIds : FailCall(id, "train")
  \/ \E id \in StoreIds, req \in StoreRequests : AddCallWithId(id, req)

StoreSpec == Init /\ [][StoreNext]_vars

\* the /jobs routes over a store whose records are created (by add and by
\* create_job), completed and cancelled
ReadNext ==
  \/ \E req \in StoreRequests : AddCall(req)
  \/ \E req \in StoreRequests : CreateJobCall(req)
  \/ \E id \in StoreIds : CompleteCall(id, SomeMetrics)
  \/ \E id \in StoreIds : CancelCheck(id)
  \/ CancelWrite
  \/ \E id \in StoreIds : GetJobStatus(id)
  \/ \E status \in StatusParams, limit \in Limits, offset \in Offsets :
       ListJobsRoute(status, limit, offset)
  \/ GetStats

ReadSpec == Init /\ [][ReadNext]_vars

\* the registry from its empty state, under any sequence of register calls
\* and reads
RegistryNext ==
  \/ \E model_type \in RegisterTypes, model_class \in Classes :
       Register(model_type, model_class)
  \/ \E model_type \in LookupTypes, config \in GetConfigs :
       GetModel(model_type, config)
  \/ ListModels
  \/ \E model_type \in LookupTypes : IsRegistered(model_type)

RegistrySpec == RegistryInit /\ [][RegistryNext]_vars

\* threads calling JobStore.instance(), each any number of times
SingletonNext ==
  \/ \E t \in Threads : InstanceTest(t)
  \/ \E t \in Threads : InstanceNew(t)
  \/ \E t \in Threads : InstanceReturn(t)

SingletonSpec == Init /\ [][SingletonNext]_vars

\* GET /datasets while the organisation's datasets change
Listings == SUBSET {OrgDatasets[i] : i \in 1 .. Len(OrgDatasets)}

DatasetsNext ==
  \/ \E listing \in Listings : HubChange(listing)
  \/ \E between \in Listings, fails1 \in BOOLEAN, fails2 \in BOOLEAN :
       ListDatasets(between, fails1, fails2)

DatasetsSpec == Init /\ [][DatasetsNext]_vars

\* several jobs running side by side, each of which may fail while its
\* dataset is prepared, while it trains and while its model is saved
PairEnv ==
  [faults |-> {"prepare", "train", "save"}, progress |-> {},
   metrics |-> {SomeMetrics}]

PairIds == 1 .. PairJobs

PairNext ==
  \/ \E req \in PoolRequests : StartJob(req, PairJobs)
  \/ \E j \in PairIds : WorkerStart(j, PairEnv)
  \/ \E j \in PairIds : PrepareDataset(j, PairEnv)
  \/ \E j \in PairIds : InitModel(j, PairEnv)
  \/ \E j \in PairIds : LoadData(j)
  \/ \E j \in PairIds : Train(j, PairEnv)
  \/ \E j \in PairIds : SaveModel(j, PairEnv)
  \/ \E j \in PairIds : Complete(j)

PairSpec == Init /\ [][PairNext]_vars

\* with blocks over get_db_session and session_scope, one after another
ScopeNext ==
  \/ \E fn \in ScopeFns : ScopeEnter(fn)
  \/ \E outcome \in {None} \cup BodyErrors : ScopeBody(outcome)
  \/ \E outcome \in {None} \cup CommitErrors : ScopeCommit(outcome)
  \/ ScopeExcept
  \/ ScopeFinally

ScopeSpec == Init /\ [][ScopeNext]_vars

\* the adapter applied to every strategy
AdapterNext == \E model \in Strategies : Adapt(model)

AdapterSpec == Init /\ [][AdapterNext]_vars

\* push_model called again and again, every attempt going either way
PushNext ==
  \/ \E local_dir \in PushDirs, repo_id \in PushRepos :
       PushCall(local_dir, repo_id)
  \/ \E ok \in BOOLEAN : PushAttempt(ok)
  \/ PushSleep

PushSpec == Init /\ [][PushNext]_vars

\* the thread running push_model keeps running: a call of the Hub returns
\* or raises, and a sleep ends
FairPushSpec ==
  /\ PushSpec
  /\ WF_vars(\E ok \in BOOLEAN : PushAttempt(ok))
  /\ WF_vars(PushSleep)

\* the worker threads and the event loop keep running: a call that can take
\* its next step eventually takes it
FairSpec ==
  /\ Spec
  /\ WF_vars(CancelWrite)
  /\ \A j \in JobIds :
       /\ WF_vars(WorkerStart(j, AnyEnv))
       /\ WF_vars(PrepareDataset(j, AnyEnv))
       /\ WF_vars(InitModel(j, AnyEnv))
       /\ WF_vars(LoadData(j))
       /\ WF_vars(Train(j, AnyEnv))
       /\ WF_vars(SaveModel(j, AnyEnv))
       /\ WF_vars(UploadModel(j, AnyEnv))
       /\ WF_vars(Complete(j))

\* ------------------------------------------------------------------ claims
AllowedEdges ==
  {<<PENDING, RUNNING>>, <<RUNNING, COMPLETED>>, <<RUNNING, FAILED>>,
   <<PENDING, CANCELLED>>, <<RUNNING, CANCELLED>>}

\* C1: under any interleaving of submit, worker execution and cancel, every
\* change of a job's status is one of the edges Pending->Running,
\* Running->Completed, Running->Failed, Pending->Cancelled,
\* Running->Cancelled.
C1_OnlyAllowedEdges ==
  [][\A j \in DOMAIN jobs :
       jobs'[j].status # jobs[j].status
         => <<jobs[j].status, jobs'[j].status>> \in AllowedEdges]_vars

\* C2: once a job's status is Cancelled, the worker's later
\* JobStore.complete or JobStore.fail does not change it: the status stays
\* Cancelled in every later state.
C2_CancelledStays ==
  [][\A j \in DOMAIN jobs :
       jobs[j].status = CANCELLED => jobs'[j].status = CANCELLED]_vars

\* C3: cancel on a job in a terminal status returns InvalidState (HTTP 400)
\* and leaves every field of the record unchanged, and no interleaving of
\* cancel_job with the worker turns a Completed or Failed job into
\* Cancelled.
C3_TerminalNotCancelled ==
  [][/\ \A j \in DOMAIN jobs :
          (jobs[j].status \in Terminal /\ CancelCheck(j))
            => (resp'.result = "HTTP400" /\ jobs' = jobs)
     /\ \A j \in DOMAIN jobs :
          jobs[j].status \in {COMPLETED, FAILED}
            => jobs'[j].status # CANCELLED]_vars

\* C4: cancel on an existing job found Pending or Running sets its status
\* to Cancelled and returns ok; cancel on an unknown job_id returns NotFound
\* (HTTP 404) and changes nothing.
C4_CancelReturnsOk ==
  [][/\ CancelWrite
          => (jobs'[cancel.job_id].status = CANCELLED /\ resp'.result = "ok")
     /\ \A j \in JobIds :
          (j \notin DOMAIN jobs /\ CancelCheck(j))
            => (resp'.result = "HTTP404" /\ jobs' = jobs)]_vars

\* C5: every Job Record that is created eventually reaches a terminal
\* status, under fair scheduling of the workers, for every fault at any step
\* of execution and for records created by either admission path.
C5_EventuallyTerminal ==
  \A j \in JobIds :
    (j \in DOMAIN jobs) ~> (j \in DOMAIN jobs /\ jobs[j].status \in Terminal)

\* C6: with N jobs submitted against EXECUTOR (K = 4 workers), in every
\* reachable state at most K jobs have status Running and at most K
\* executions of _run_job are in progress.
C6_AtMostKRunning ==
  /\ Cardinality(InProgress) <= MaxWorkers
  /\ Cardinality({j \in DOMAIN jobs : jobs[j].status = RUNNING}) <= MaxWorkers

\* C6 witness: all K workers are executing _run_job while a submitted job
\* waits in the queue.
C6_Witness ==
  /\ Cardinality(InProgress) = MaxWorkers
  /\ queue # <<>>

\* C7: for every job whose status is terminal, exactly one of "metrics is a
\* non-empty mapping" and "error is non-null" holds.
C7_MetricsXorError ==
  \A j \in DOMAIN jobs :
    jobs[j].status \in Terminal
      => ((jobs[j].metrics # NoMetrics) # (jobs[j].error # None))

\* C8: for every job, progress = 100 if and only if status = Completed.
C8_Progress100IffCompleted ==
  \A j \in DOMAIN jobs :
    (jobs[j].progress = 100) <=> (jobs[j].status = COMPLETED)

UnregisteredRequests == {req \in Requests : ~is_registered(req.model_type)}

MissingDatasetRequests == {req \in Requests : ~ensure_dataset_exists(req.dataset)}

\* C10: a submit whose dataset the dataset service reports as not found is
\* rejected synchronously (ValueError from start_job, HTTP 400 from the
\* route) and creates no Job Record, on both admission paths.
C10_MissingDatasetCreatesNothing ==
  [][\A req \in MissingDatasetRequests :
            /\ StartJob(req, MaxJobs)
                 => (resp'.result = "ValueError" /\ jobs' = jobs)
            /\ StartTraining(req, MaxJobs)
                 => (resp'.result = "HTTP400" /\ jobs' = jobs)]_vars

\* the texts of the exceptions raised by data preparation, training and the
\* local save
ExecutionFaults == {"prepare", "train", "save"}

\* C11: a job whose _run_job raised during data preparation, strategy
\* construction, training or local save ends with status Failed, with the
\* exception's text verbatim in its error field and a failure entry carrying
\* that text in its logs.
C11_ExecutionErrorCaptured ==
  \A j \in DOMAIN tasks :
    (tasks[j].pc = "ended" /\ tasks[j].exc \in ExecutionFaults)
      => /\ jobs[j].status = FAILED
         /\ jobs[j].error = tasks[j].exc
         /\ \E i \in DOMAIN jobs[j].logs :
              jobs[j].logs[i] = "Job failed: " \o tasks[j].exc

\* C12: when publication was requested and every upload attempt failed, the
\* job ends Completed with its metrics; status is not Failed and error stays
\* null.
C12_UploadFailureNotFatal ==
  \A j \in DOMAIN tasks :
    (tasks[j].pc = "ended" /\ tasks[j].exc = PushError)
      => /\ jobs[j].status = COMPLETED
         /\ jobs[j].error = None

PublicationRequested(j) == j \in DOMAIN tasks /\ tasks[j].req.upload_to_hub

\* C13: huggingface_model_id is non-null only if publication was requested
\* and an upload succeeded; a job with publication requested that is
\* Completed carries the URL https://huggingface.co/<repo_id>, repo_id made
\* of the job's own user_id, model_type and the last segment of its dataset.
C13_RemoteArtifactId ==
  \A j \in DOMAIN jobs :
    /\ jobs[j].huggingface_model_id # None
         => /\ PublicationRequested(j)
            /\ \E i \in DOMAIN jobs[j].logs : jobs[j].logs[i] = "Upload successful"
    /\ (PublicationRequested(j) /\ jobs[j].status = COMPLETED
          /\ jobs[j].dataset = "GeneAlpha/sample")
         => jobs[j].huggingface_model_id =
              "https://huggingface.co/GeneAlpha/" \o jobs[j].user_id \o "_"
                \o jobs[j].model_type \o "_sample__" \o Stamp

\* C13 witness: a job with publication requested is Completed and carries a
\* remote artifact id.
C13_Witness ==
  \E j \in DOMAIN jobs :
    /\ PublicationRequested(j)
    /\ jobs[j].status = COMPLETED
    /\ jobs[j].dataset = "GeneAlpha/sample"
    /\ jobs[j].huggingface_model_id # None

\* C14: whenever an execution of _run_job has ended, by return or by a
\* raised exception, the scratch directory of its job does not exist.
C14_ScratchReleased ==
  \A j \in DOMAIN tasks : tasks[j].pc = "ended" => j \notin scratch

\* C14 witness: an execution that had created its scratch directory ended on
\* an error path.
C14_Witness ==
  \E j \in DOMAIN tasks :
    /\ tasks[j].pc = "ended"
    /\ tasks[j].exc \in ExecutionFaults \cup {PushError}
    /\ j \notin scratch

\* C15: the value a Job Store read returned is an independent snapshot:
\* while a caller holds what get_job returned (cancel_job between its read
\* and its write), no mutation of the store's record by a worker changes
\* what the caller holds.  The caller holds the store's own Job object, so
\* what it holds is the record jobs[cancel.job_id].
C15_ReadIsSnapshot ==
  [][(cancel.pc = "checked" /\ cancel'.pc = "checked")
       => jobs'[cancel.job_id] = jobs[cancel.job_id]]_vars

\* C16: every write to a field of a record held by the store goes through
\* the store's API under its lock: the statements of the handlers that run
\* outside that API (the assignment in cancel_job, the config write in
\* start_training) change no record and leave a new record as create_job
\* stored it.
C16_WritesOnlyThroughStore ==
  [][/\ CancelWrite => jobs' = jobs
     /\ \A req \in Requests :
          StartTraining(req, MaxJobs)
            => \A j \in DOMAIN jobs' \ DOMAIN jobs : jobs'[j].config = req.config]_vars

\* C17: JobStore.update, JobStore.complete and JobStore.fail called with a
\* job_id that is not in the store fail with a not-found error (KeyError)
\* and leave the record collection unchanged.
C17_UnknownIdRejected ==
  [][\A id \in StoreIds :
       id \notin DOMAIN jobs
         => /\ \A fields \in UpdateFields :
                 UpdateCall(id, fields)
                   => (resp'.result = "KeyError" /\ jobs' = jobs)
            /\ CompleteCall(id, SomeMetrics)
                 => (resp'.result = "KeyError" /\ jobs' = jobs)
            /\ FailCall(id, "train")
                 => (resp'.result = "KeyError" /\ jobs' = jobs)]_vars

\* C17 witness: a call on an id the store does not hold was answered with
\* KeyError while the store held another record.
C17_Witness ==
  /\ resp.op \in {"update", "complete", "fail"}
  /\ resp.result = "KeyError"
  /\ DOMAIN jobs # {}
  /\ DOMAIN jobs # StoreIds

UserParams == {None, "alice42", "bob7"}

Matches(id, status, user_id) ==
  /\ status = None \/ jobs[id].status = status
  /\ user_id = None \/ jobs[id].user_id = user_id

\* r holds exactly the matching records, each once, newest first
Listed(r, status, user_id) ==
  /\ {r[i] : i \in DOMAIN r} = {id \in DOMAIN jobs : Matches(id, status, user_id)}
  /\ Len(r) = Cardinality({id \in DOMAIN jobs : Matches(id, status, user_id)})
  /\ \A i, k \in DOMAIN r :
       i < k => jobs[r[i]].created_at >= jobs[r[k]].created_at

\* the page [offset, offset + limit) of a list
PageOf(all, limit, offset) ==
  LET rest == IF Len(all) > offset THEN Len(all) - offset ELSE 0
      n == IF rest < limit THEN rest ELSE limit
  IN [k \in 1 .. n |-> all[offset + k]]

\* C18: list_jobs(status, user_id) returns exactly the records that match
\* every given filter (all records when no filter is given), each once,
\* ordered by created_at descending; the jobs route returns total = the
\* number of matching records and jobs = the slice [offset, offset + limit)
\* of that list.
C18_ListJobs ==
  /\ [](\A status \in JobStatus \cup {None}, user_id \in UserParams :
          Listed(list_jobs(jobs, status, user_id), status, user_id))
  /\ [][(/\ resp'.op = "list_jobs"
         /\ resp'.result = "HTTP200"
         /\ ListJobsRoute(resp'.query.status, resp'.query.limit, resp'.query.offset))
          => LET q == resp'.query
                 st == IF q.status \in {None, ""} THEN None ELSE q.status
             IN /\ resp'.total = Cardinality({id \in DOMAIN jobs : Matches(id, st, None)})
                /\ resp'.jobs = PageOf(list_jobs(jobs, st, None), q.limit, q.offset)]_vars

\* C18 witness: the route returned a page of two records, the newer first.
C18_Witness ==
  /\ resp.op = "list_jobs"
  /\ resp.result = "HTTP200"
  /\ Len(resp.jobs) = 2
  /\ resp.jobs[1] > resp.jobs[2]

\* C19: stats() returns a count for each of the five statuses plus total;
\* each count is the number of records in that status, and total is the
\* number of records and the sum of the per-status counts.
C19_StatsCountEveryStatus ==
  [][GetStats
       => LET s == resp'.body IN
            /\ s.total = Cardinality(DOMAIN jobs)
            /\ \A status \in JobStatus :
                 /\ status \in DOMAIN s
                 /\ s[status] = Cardinality({id \in DOMAIN jobs : jobs[id].status = status})]_vars

Accepted(req) ==
  ensure_dataset_exists(req.dataset) /\ is_registered(req.model_type)

\* C21: an accepted submit needs no free worker: whenever a request is
\* acceptable, start_job can complete, also with all K workers busy.  The
\* step creates the record in status Pending, appends the run to EXECUTOR's
\* queue, starts no execution and touches no other record; and while the
\* run is still queued the job stays Pending with completed_at null.
C21_SubmitDoesNotWait ==
  /\ [](\A req \in PoolRequests :
          (Accepted(req) /\ Cardinality(DOMAIN jobs) < PoolJobs)
            => ENABLED (StartJob(req, PoolJobs) /\ resp'.result = "job_id"))
  /\ [][\A req \in PoolRequests :
          (resp'.result = "job_id" /\ StartJob(req, PoolJobs))
            => LET job_id == NewJobId(jobs) IN
                 /\ job_id \notin DOMAIN jobs
                 /\ jobs'[job_id].status = PENDING
                 /\ jobs'[job_id].completed_at = None
                 /\ queue' = Append(queue, job_id)
                 /\ tasks'[job_id].pc = "queued"
                 /\ {j \in DOMAIN tasks' :
                       tasks'[j].pc \notin {"queued", "ended"}} = InProgress
                 /\ \A j \in DOMAIN jobs : jobs'[j] = jobs[j]]_vars
  /\ [](\A j \in DOMAIN tasks :
          tasks[j].pc = "queued"
            => jobs[j].status = PENDING /\ jobs[j].completed_at = None)

\* C21 witness: all K workers are executing, and the job of the last
\* accepted submit is in the store, Pending, its run waiting in the queue.
C21_Witness ==
  /\ Cardinality(InProgress) = MaxWorkers
  /\ resp = [op |-> "start_job", result |-> "job_id"]
  /\ queue # <<>>
  /\ queue[Len(queue)] = Cardinality(DOMAIN jobs)
  /\ jobs[queue[Len(queue)]].status = PENDING

Listed_types(l) == {l[i] : i \in 1 .. Len(l)}

FrozenFields ==
  {"job_id", "user_id", "model_type", "dataset", "config", "created_at",
   "started_at", "completed_at", "metrics", "error", "model_path",
   "huggingface_model_id", "wandb_run_url"}

\* C24: once a job's status is terminal, no step changes any of its fields
\* other than status, logs and progress.
C24_TerminalFieldsFrozen ==
  [][\A j \in DOMAIN jobs :
       jobs[j].status \in Terminal
         => /\ j \in DOMAIN jobs'
            /\ \A f \in FrozenFields : jobs'[j][f] = jobs[j][f]]_vars

\* C25: at most one JobStore is ever created through instance(), and every
\* call that has returned has returned the same JobStore.
C25_OneJobStore ==
  /\ Cardinality({t \in Threads : callers[t].made}) <= 1
  /\ \A t, u \in Threads :
       (callers[t].ret # NoInstance /\ callers[u].ret # NoInstance)
         => callers[t].ret = callers[u].ret

\* C26: every successful response of GET /datasets has total equal to the
\* number of entries in datasets.
C26_TotalIsLength ==
  (resp.op = "list_datasets" /\ resp.result = "HTTP200")
    => resp.total = Len(resp.datasets)

\* C26 witness: a response has been returned, and the organisation now
\* holds another number of datasets than the response lists.
C26_Witness ==
  /\ resp.op = "list_datasets"
  /\ resp.result = "HTTP200"
  /\ resp.datasets # <<>>
  /\ Cardinality(org_datasets) # Len(resp.datasets)

\* C27: every job that _run_job has ended as Completed or Failed has a
\* non-null started_at, and no job leaves Pending for Completed or Failed
\* without having been Running.
C27_StartedBeforeEnd ==
  /\ [](\A j \in DOMAIN jobs :
          jobs[j].status \in {COMPLETED, FAILED} => jobs[j].started_at # None)
  /\ [][\A j \in DOMAIN jobs :
          jobs[j].status = PENDING
            => jobs'[j].status \notin {COMPLETED, FAILED}]_vars

\* C28: for every job, completed_at is non-null exactly when the status is
\* terminal.
C28_CompletedAtIffTerminal ==
  \A j \in DOMAIN jobs :
    jobs[j].completed_at # None <=> jobs[j].status \in Terminal

\* C29: the progress of every job is in 0..100, and no step lowers the
\* progress of a job that is not terminal.
C29_ProgressMonotone ==
  /\ [](\A j \in DOMAIN jobs : jobs[j].progress \in 0 .. 100)
  /\ [][\A j \in DOMAIN jobs :
          jobs[j].status \notin Terminal
            => jobs'[j].progress >= jobs[j].progress]_vars

\* C30: once data preparation has finished the job's progress is above 0:
\* while _run_job is constructing the model, loading data, training, saving
\* or publishing, and in a job that failed in training.
C30_ProgressCheckpoints ==
  \A j \in DOMAIN tasks :
    /\ tasks[j].pc \in {"init", "load", "train", "finish", "upload", "complete"}
         => jobs[j].progress > 0
    /\ (tasks[j].pc = "ended" /\ tasks[j].exc = "train")
         => jobs[j].progress > 0

\* a is a prefix of b
IsPrefix(a, b) == Len(a) <= Len(b) /\ SubSeq(b, 1, Len(a)) = a

\* C31: every step leaves the logs of every job a prefix of what they are
\* after the step, so the logs in any state are a prefix of the logs in any
\* later state.
C31_LogsAppendOnly ==
  [][\A j \in DOMAIN jobs :
       j \in DOMAIN jobs' /\ IsPrefix(jobs[j].logs, jobs'[j].logs)]_vars

\* C31 witness: a job has failed after log_step wrote several entries; the
\* entries are all there, in the order written, with Job.fail's entry last.
C31_Witness ==
  \E j \in DOMAIN jobs :
    /\ jobs[j].status = FAILED
    /\ Len(jobs[j].logs) >= 5
    /\ jobs[j].logs[1] = "Downloading & splitting dataset..."
    /\ jobs[j].logs[2] = "Initialising model..."
    /\ jobs[j].logs[3] = "Training..."

\* every entry of a sequence of attempt outcomes is a failure
AllFailed(made) == \A i \in 1 .. Len(made) : ~made[i]

\* C32: a push_model call makes at most 3 attempts; an attempt is under way
\* or pending only while every earlier attempt of the call has failed, and
\* attempt n follows exactly n - 1 failures; it returns the repository URL
\* at its first successful attempt, raises the generic failure after exactly
\* 3 failed attempts, its outcome being the one push_model computes from the
\* attempts made; and every call that has started ends.
C32_BoundedRetries ==
  /\ [](/\ Len(push.made) <= PushAttempts
        /\ AllFailed(push.made)
        /\ push.pc = "try" => Len(push.made) = push.attempt - 1
        /\ push.pc = "sleep" => Len(push.made) = push.attempt)
  /\ [](resp.op = "push_model"
          => /\ Len(resp.made) \in 1 .. PushAttempts
             /\ AllFailed(SubSeq(resp.made, 1, Len(resp.made) - 1))
             /\ resp.raised
                  <=> (Len(resp.made) = PushAttempts /\ AllFailed(resp.made))
             /\ resp.raised => resp.result = PushError
             /\ ~resp.raised
                  => /\ resp.made[Len(resp.made)]
                     /\ resp.result = "https://huggingface.co/" \o resp.repo_id
             /\ \A outcomes \in [1 .. PushAttempts -> BOOLEAN] :
                  SubSeq(outcomes, 1, Len(resp.made)) = resp.made
                    => /\ push_model(outcomes, resp.repo_id).raised = resp.raised
                       /\ push_model(outcomes, resp.repo_id).value = resp.result)
  /\ (push.pc # "idle") ~> (push.pc = "idle")

\* C32 witness: a call has returned the URL at its third attempt, after two
\* failures.
C32_Witness ==
  /\ resp.op = "push_model"
  /\ ~resp.raised
  /\ resp.made = <<FALSE, FALSE, TRUE>>
  /\ push.pc = "idle"

\* the strategy has the path-based fit
HasPathFit(m) == m.fit /\ PathKw \subseteq m.fit_want

\* the strategy has the four-array train
HasArrayTrain(m) == m.train /\ {"X_train", "y_train"} \subseteq m.want

C34_UnsupportedRejected ==
  (/\ resp.op = "adapter"
   /\ ~HasPathFit(resp.model)
   /\ ~HasArrayTrain(resp.model))
    => resp.calls = <<>> /\ resp.raised = "AttributeError"

\* C35: when training is invoked, the config held by the job's strategy is
\* the config of the request and of the Job Record.
C35_StrategyHoldsRequestConfig ==
  \A j \in DOMAIN tasks :
    tasks[j].pc = "train"
      => /\ tasks[j].model.config = tasks[j].req.config
         /\ tasks[j].model.config = jobs[j].config

\* the jobs whose model.joblib, written by model.save(model_path) into
\* storage/artifacts/<job_id>, is on disk
SavedModels ==
  {j \in DOMAIN tasks : j \in scratch /\ tasks[j].pc \in {"upload", "complete"}}

\* C36: for every Completed job the saved artifact is on disk and the
\* record's model_path names it.
C36_ArtifactKept ==
  \A j \in DOMAIN jobs :
    jobs[j].status = COMPLETED
      => j \in SavedModels /\ jobs[j].model_path # None

\* C37: a submit whose model_type is not registered fails with the
\* registry's error, whether or not its dataset is reachable.
C37_ModelCheckedFirst ==
  [][\A req \in UnregisteredRequests :
       (resp'.op = "start_job" /\ StartJob(req, MaxJobs))
         => resp'.result = "ValueError" /\ resp'.error = ModelError]_vars

\* a step touches job j: its record, its scratch directory or the locals of
\* its _run_job call are not the same after the step as before it
Touched(j) ==
  \/ (j \in DOMAIN jobs) # (j \in DOMAIN jobs')
  \/ j \in DOMAIN jobs /\ j \in DOMAIN jobs' /\ jobs'[j] # jobs[j]
  \/ (j \in scratch) # (j \in scratch')
  \/ (j \in DOMAIN tasks) # (j \in DOMAIN tasks')
  \/ j \in DOMAIN tasks /\ j \in DOMAIN tasks' /\ tasks'[j] # tasks[j]

\* C38: every step (a store write of a worker, a failure of a worker at
\* any point, a submit) touches the record, the scratch directory and the
\* worker locals (logs list, strategy instance) of at most one job.
C38_OneJobPerStep ==
  [][\A a, b \in PairIds : (Touched(a) /\ Touched(b)) => a = b]_vars

\* C38 witness: one job has failed and its directory is gone while another
\* job is in training, with its record, its directory and its logs in place.
C38_Witness ==
  \E a, b \in DOMAIN tasks :
    /\ a # b
    /\ jobs[a].status = FAILED
    /\ a \notin scratch
    /\ tasks[b].pc = "train"
    /\ b \in scratch
    /\ jobs[b].status = PENDING
    /\ jobs[b].logs = tasks[b].logs
    /\ Len(jobs[b].logs) = 4

\* C39: when the execution of a job has ended, the tracker run started for
\* it has been finished.
C39_TrackerRunFinished ==
  \A j \in DOMAIN tracker :
    tasks[j].pc = "ended" => tracker[j] = "finished"

\* C40: a with block over get_db_session or session_scope that ends without
\* an exception has called commit and then close, once each, and no
\* rollback; one whose body or commit raised has called rollback once and
\* then close once, has not committed, and ends with the exception that was
\* raised; while the block is open the session has not been closed.
C40_SessionScope ==
  /\ resp.op \in ScopeFns
       => /\ resp.raised <=> resp.thrown # None
          /\ ~resp.raised
               => /\ resp.calls = <<"commit", "close">>
                  /\ resp.committed
          /\ resp.raised
               => /\ resp.result = resp.thrown
                  /\ ~resp.committed
                  /\ resp.thrown \in BodyErrors
                       => resp.calls = <<"rollback", "close">>
                  /\ resp.thrown \in CommitErrors
                       => resp.calls = <<"commit", "rollback", "close">>
  /\ \A i \in 1 .. Len(session.calls) : session.calls[i] # "close"
  /\ session.committed => session.thrown = None

\* C40 witness: commit has raised inside session_scope; the block has ended
\* with that exception after rollback and close.
C40_Witness ==
  /\ resp.op = "session_scope"
  /\ resp.raised
  /\ resp.result \in CommitErrors
  /\ resp.calls = <<"commit", "rollback", "close">>
  /\ session = NoSession

====
